---------------------------- MODULE Spec2Model ----------------------------
(***************************************************************************)
(* Model of modules/crypto/pbkdf2v2.c (atheme): the PBKDF2 v2 password     *)
(* credential engine, built with HAVE_OPENSSL and HAVE_LIBIDN.             *)
(*                                                                         *)
(* Texts (C strings) are sequences of character codes 1..255, byte buffers *)
(* are sequences of 0..255.  A fixed-size buffer that was memset to zero   *)
(* is the sequence of the bytes written to it; reading past them reads 0.  *)
(***************************************************************************)
EXTENDS Integers, Sequences, FiniteSets, TLC

(***************************************************************************)
(* Bounds of the model                                                     *)
(***************************************************************************)
\* arc4random_buf() outcomes tried by the salt generator: RandomSalt(0..MaxRand)
MaxRand == 2

(***************************************************************************)
(* Constants of include/pbkdf2v2.h, atheme.h and <openssl/sha.h>           *)
(***************************************************************************)
PBKDF2_PRF_HMAC_SHA1 == 4
PBKDF2_PRF_HMAC_SHA2_256 == 5
PBKDF2_PRF_HMAC_SHA2_512 == 6
PBKDF2_PRF_HMAC_SHA1_S64 == 24
PBKDF2_PRF_HMAC_SHA2_256_S64 == 25
PBKDF2_PRF_HMAC_SHA2_512_S64 == 26
PBKDF2_PRF_SCRAM_SHA1 == 44
PBKDF2_PRF_SCRAM_SHA2_256 == 45
PBKDF2_PRF_SCRAM_SHA2_512 == 46
PBKDF2_PRF_SCRAM_SHA1_S64 == 64
PBKDF2_PRF_SCRAM_SHA2_256_S64 == 65
PBKDF2_PRF_SCRAM_SHA2_512_S64 == 66
PBKDF2_DIGEST_DEF == PBKDF2_PRF_HMAC_SHA2_512_S64

PBKDF2_ITERCNT_MIN == 10000
PBKDF2_ITERCNT_MAX == 5000000
PBKDF2_ITERCNT_DEF == 64000

PBKDF2_SALTLEN_MIN == 8
PBKDF2_SALTLEN_MAX == 64
PBKDF2_SALTLEN_DEF == 32

PASSLEN == 288
ATHEME_SASLPREP_MAXLEN == PASSLEN + 1

SHA_DIGEST_LENGTH == 20
SHA256_DIGEST_LENGTH == 32
SHA512_DIGEST_LENGTH == 64

\* the value (size_t) -1 that base64_encode/base64_decode return on failure
SIZE_FAIL == 0 - 1

(***************************************************************************)
(* Characters and texts                                                    *)
(***************************************************************************)
IsDigit(ch) == ch >= 48 /\ ch <= 57
IsUpper(ch) == ch >= 65 /\ ch <= 90
IsLower(ch) == ch >= 97 /\ ch <= 122

\* membership in the scan set "%[" PBKDF2_FN_BASE64 "]": a-z A-Z 0-9 + / =
InBase64Set(ch) == IsLower(ch) \/ IsUpper(ch) \/ IsDigit(ch) \/ ch \in {43, 47, 61}

\* "$z$", the literal prefix of PBKDF2_FN_PREFIX, and the '$' delimiter
Dollar == <<36>>
PrefixLit == <<36, 122, 36>>

\* read of a zero-initialised buffer: bytes never written are 0
ByteAt(buf, i) == IF i <= Len(buf) THEN buf[i] ELSE 0

\* the first n bytes of a zero-initialised buffer, as memcmp(3) reads them
FirstBytes(buf, n) == SubSeq([i \in 1..n |-> ByteAt(buf, i)], 1, n)

\* strlen(3) of a zero-initialised buffer holding buf
StrLen(buf) ==
    (CHOOSE q \in 1..(Len(buf) + 1) :
        /\ q = Len(buf) + 1 \/ buf[q] = 0
        /\ \A j \in 1..(q - 1) : buf[j] # 0) - 1

\* what printf's %s prints of a zero-initialised buffer: up to the first NUL
CString(buf) == SubSeq(buf, 1, StrLen(buf))

\* printf's %u
RECURSIVE UIntToText(_)
UIntToText(n) ==
    IF n < 10 THEN <<48 + n>> ELSE UIntToText(n \div 10) \o <<48 + (n % 10)>>

\* value of a run of decimal digits
RECURSIVE DigitsValue(_)
DigitsValue(ds) ==
    IF ds = <<>> THEN 0
    ELSE 10 * DigitsValue(SubSeq(ds, 1, Len(ds) - 1)) + (ds[Len(ds)] - 48)


(***************************************************************************)
(* sscanf(3) with the three load formats.  PBKDF2_FN_LOADSALT,             *)
(* PBKDF2_FN_LOADHASH and PBKDF2_FS_LOADHASH are prefixes of one another:  *)
(*   "$z$%u$%u$%[set]$"  "$z$%u$%u$%[set]$%[set]"  "...$%[set]$%[set]"     *)
(* so one scan yields the conversions each of them would make.  The texts  *)
(* of the model hold no white space and no sign before a number.           *)
(***************************************************************************)
\* first position >= p of text whose character is not in the class (Len+1 if none)
InClass(cls, ch) == IF cls = "%u" THEN IsDigit(ch) ELSE InBase64Set(ch)

RunEnd(text, p, cls) ==
    CHOOSE q \in p..(Len(text) + 1) :
        /\ q = Len(text) + 1 \/ ~InClass(cls, text[q])
        /\ \A j \in p..(q - 1) : InClass(cls, text[j])

HasLit(text, p, lit) ==
    /\ p + Len(lit) - 1 <= Len(text)
    /\ \A i \in 1..Len(lit) : text[p + i - 1] = lit[i]

NoFields == [n |-> 0, a |-> 0, c |-> 0, f3 |-> <<>>, f4 |-> <<>>, f5 |-> <<>>]

\* the conversions of PBKDF2_FS_LOADHASH on text, in order, until one fails
ScanFields(text) ==
    LET p1 == Len(PrefixLit) + 1
        \* %[set] number k (3, 4 or 5) is the run from b to e - 1; r holds the
        \* conversions made before it
        conv5(r, b, e) ==
            IF e = b THEN r ELSE [r EXCEPT !.n = 5, !.f5 = SubSeq(text, b, e - 1)]
        conv4(r, b, e) ==
            IF e = b THEN r
            ELSE IF ~HasLit(text, e, Dollar)
            THEN [r EXCEPT !.n = 4, !.f4 = SubSeq(text, b, e - 1)]
            ELSE conv5([r EXCEPT !.n = 4, !.f4 = SubSeq(text, b, e - 1)],
                       e + 1, RunEnd(text, e + 1, "%["))
        conv3(r, b, e) ==
            IF e = b THEN r
            ELSE IF ~HasLit(text, e, Dollar)
            THEN [r EXCEPT !.n = 3, !.f3 = SubSeq(text, b, e - 1)]
            ELSE conv4([r EXCEPT !.n = 3, !.f3 = SubSeq(text, b, e - 1)],
                       e + 1, RunEnd(text, e + 1, "%["))
        \* the second %u
        conv2(r, b, e) ==
            IF e = b THEN r
            ELSE IF ~HasLit(text, e, Dollar)
            THEN [r EXCEPT !.n = 2, !.c = DigitsValue(SubSeq(text, b, e - 1))]
            ELSE conv3([r EXCEPT !.n = 2, !.c = DigitsValue(SubSeq(text, b, e - 1))],
                       e + 1, RunEnd(text, e + 1, "%["))
        \* the first %u
        conv1(b, e) ==
            IF e = b THEN NoFields
            ELSE IF ~HasLit(text, e, Dollar)
            THEN [NoFields EXCEPT !.n = 1, !.a = DigitsValue(SubSeq(text, b, e - 1))]
            ELSE conv2([NoFields EXCEPT !.n = 1, !.a = DigitsValue(SubSeq(text, b, e - 1))],
                       e + 1, RunEnd(text, e + 1, "%u"))
    IN  IF ~HasLit(text, 1, PrefixLit) THEN NoFields
        ELSE conv1(p1, RunEnd(text, p1, "%u"))

\* return value of sscanf(text, <load format with nconv conversions>, ...),
\* f being ScanFields(text)
Sscanf(f, nconv) == IF f.n < nconv THEN f.n ELSE nconv

\* snprintf(3) with PBKDF2_FN_SAVESALT "$z$%u$%u$%s$"
FmtSaveSalt(a, c, salt) ==
    PrefixLit \o UIntToText(a) \o Dollar \o UIntToText(c) \o Dollar \o salt \o Dollar

\* snprintf(3) with PBKDF2_FN_SAVEHASH "$z$%u$%u$%s$%s"
FmtSaveHash(a, c, salt, dg64) == FmtSaveSalt(a, c, salt) \o dg64

\* snprintf(3) with PBKDF2_FS_SAVEHASH "$z$%u$%u$%s$%s$%s"
FmtSaveHashScram(a, c, salt, sk64, hk64) ==
    FmtSaveHash(a, c, salt, sk64) \o Dollar \o hk64

(***************************************************************************)
(* base64 (libathemecore): RFC 4648 with padding; the decoder refuses a    *)
(* text that is not the encoding of some byte string.                      *)
(***************************************************************************)
B64Char(v) ==
    IF v < 26 THEN 65 + v
    ELSE IF v < 52 THEN 97 + (v - 26)
    ELSE IF v < 62 THEN 48 + (v - 52)
    ELSE IF v = 62 THEN 43 ELSE 47

B64Value(ch) ==
    IF IsUpper(ch) THEN ch - 65
    ELSE IF IsLower(ch) THEN ch - 97 + 26
    ELSE IF IsDigit(ch) THEN ch - 48 + 52
    ELSE IF ch = 43 THEN 62
    ELSE IF ch = 47 THEN 63
    ELSE 0

IsB64Digit(ch) == IsUpper(ch) \/ IsLower(ch) \/ IsDigit(ch) \/ ch \in {43, 47}

Pow(b, e) == IF e = 0 THEN 1 ELSE IF e = 1 THEN b ELSE IF e = 2 THEN b * b ELSE b * b * b

B64EncodeText(bytes) ==
    LET n == Len(bytes)
        quantum(g) == ByteAt(bytes, 3 * g + 1) * 65536
                      + ByteAt(bytes, 3 * g + 2) * 256 + ByteAt(bytes, 3 * g + 3)
        m == 4 * ((n + 2) \div 3)
    IN  SubSeq([i \in 1..m |->
                   LET g == (i - 1) \div 4
                       k == (i - 1) % 4
                   IN  IF k >= 2 /\ 3 * g + k > n THEN 61
                       ELSE B64Char((quantum(g) \div Pow(64, 3 - k)) % 64)], 1, m)

\* base64_encode(src, srclen, dst, dstsize): the text, or SIZE_FAIL
base64_encode(bytes, dstsize) ==
    LET written(text) ==
            IF Len(text) + 1 > dstsize THEN [len |-> SIZE_FAIL, text |-> <<>>]
            ELSE [len |-> Len(text), text |-> text]
    IN  written(B64EncodeText(bytes))

B64Pad(text) ==
    LET L == Len(text)
    IN  IF L >= 2 /\ text[L] = 61 /\ text[L - 1] = 61 THEN 2
        ELSE IF L >= 1 /\ text[L] = 61 THEN 1 ELSE 0

B64Valid(text) ==
    LET L == Len(text)
        pad == B64Pad(text)
    IN  /\ L % 4 = 0
        /\ \A i \in 1..(L - pad) : IsB64Digit(text[i])
        /\ pad = 1 => B64Value(text[L - 1]) % 4 = 0
        /\ pad = 2 => B64Value(text[L - 2]) % 16 = 0

B64DecodeBytes(text) ==
    LET L == Len(text)
        pad == B64Pad(text)
        sext(i) == IF i <= L - pad THEN B64Value(text[i]) ELSE 0
        quantum(g) == sext(4 * g + 1) * 262144 + sext(4 * g + 2) * 4096
                      + sext(4 * g + 3) * 64 + sext(4 * g + 4)
        m == 3 * (L \div 4) - pad
    IN  SubSeq([j \in 1..m |->
                   LET g == (j - 1) \div 3
                       k == (j - 1) % 3
                   IN  (quantum(g) \div Pow(256, 2 - k)) % 256], 1, m)

\* base64_decode(src, dst, dstsize): the byte count and the bytes, or SIZE_FAIL
base64_decode(text, dstsize) ==
    LET written(bytes) ==
            IF Len(bytes) > dstsize THEN [len |-> SIZE_FAIL, bytes |-> <<>>]
            ELSE [len |-> Len(bytes), bytes |-> bytes]
    IN  IF ~B64Valid(text) THEN [len |-> SIZE_FAIL, bytes |-> <<>>]
        ELSE written(B64DecodeBytes(text))

(***************************************************************************)
(* The OpenSSL primitives.  They are deterministic functions of their      *)
(* arguments producing dl bytes; the model computes them with a small      *)
(* mixing function that keeps the three primitives, the digest kinds and   *)
(* the arguments apart.                                                    *)
(***************************************************************************)
\* a digest of seq[lo..hi], by halves
RECURSIVE MixRange(_, _, _)
MixRange(seq, lo, hi) ==
    IF lo > hi THEN 11
    ELSE IF lo = hi THEN ((seq[lo] + 1) * 257 + lo) % 65521
    ELSE LET mid == (lo + hi) \div 2
         IN  (MixRange(seq, lo, mid) * 251 + MixRange(seq, mid + 1, hi) * 131
              + (hi - lo)) % 65521

Absorb(h, seq, i) == (h * 241 + MixRange(seq, i, Len(seq)) * 31 + Len(seq) + 7) % 65521

Squeeze(h, n) ==
    SubSeq([i \in 1..n |-> ((h + i) * (2 * i + 17) + (h \div 256)) % 256], 1, n)

MdLength(md) ==
    IF md = "sha1" THEN SHA_DIGEST_LENGTH
    ELSE IF md = "sha256" THEN SHA256_DIGEST_LENGTH
    ELSE SHA512_DIGEST_LENGTH

\* PKCS5_PBKDF2_HMAC(pass, passlen, salt, saltlen, iter, md, keylen, out)
PKCS5_PBKDF2_HMAC(pass, salt, iter, md, keylen) ==
    Squeeze(Absorb(Absorb(Absorb(1000 + MdLength(md), pass, 1), salt, 1),
                   UIntToText(iter), 1), keylen)

\* HMAC(md, key, keylen, msg, msglen, out, NULL)
HMAC(md, key, msg) ==
    Squeeze(Absorb(Absorb(2000 + MdLength(md), key, 1), msg, 1), MdLength(md))

\* EVP_Digest(data, count, out, NULL, md, NULL)
EVP_Digest(md, data) ==
    Squeeze(Absorb(3000 + MdLength(md), data, 1), MdLength(md))

\* "Server Key" and "Client Key" (RFC 5802 section 3)
ServerKeyStr == <<83, 101, 114, 118, 101, 114, 32, 75, 101, 121>>
ClientKeyStr == <<67, 108, 105, 101, 110, 116, 32, 75, 101, 121>>

(***************************************************************************)
(* struct pbkdf2v2_parameters, after memset(parsed, 0x00, sizeof *parsed)  *)
(***************************************************************************)
\* sizeof parsed->salt and EVP_MAX_MD_SIZE (sizeof parsed->cdg, sdg, ssk, shk)
SaltBufSize == 8192
EVP_MAX_MD_SIZE == 64

ZeroParsed ==
    [a |-> 0, c |-> 0, scram |-> FALSE, salt64 |-> FALSE, md |-> "null", dl |-> 0,
     salt |-> <<>>, sl |-> 0, cdg |-> <<>>, sdg |-> <<>>, ssk |-> <<>>, shk |-> <<>>]

Sha1Ids == {PBKDF2_PRF_HMAC_SHA1, PBKDF2_PRF_HMAC_SHA1_S64,
            PBKDF2_PRF_SCRAM_SHA1, PBKDF2_PRF_SCRAM_SHA1_S64}
Sha256Ids == {PBKDF2_PRF_HMAC_SHA2_256, PBKDF2_PRF_HMAC_SHA2_256_S64,
              PBKDF2_PRF_SCRAM_SHA2_256, PBKDF2_PRF_SCRAM_SHA2_256_S64}
Sha512Ids == {PBKDF2_PRF_HMAC_SHA2_512, PBKDF2_PRF_HMAC_SHA2_512_S64,
              PBKDF2_PRF_SCRAM_SHA2_512, PBKDF2_PRF_SCRAM_SHA2_512_S64}
ScramIds == {PBKDF2_PRF_SCRAM_SHA1, PBKDF2_PRF_SCRAM_SHA1_S64,
             PBKDF2_PRF_SCRAM_SHA2_256, PBKDF2_PRF_SCRAM_SHA2_256_S64,
             PBKDF2_PRF_SCRAM_SHA2_512, PBKDF2_PRF_SCRAM_SHA2_512_S64}
S64Ids == {PBKDF2_PRF_HMAC_SHA1_S64, PBKDF2_PRF_HMAC_SHA2_256_S64,
           PBKDF2_PRF_HMAC_SHA2_512_S64, PBKDF2_PRF_SCRAM_SHA1_S64,
           PBKDF2_PRF_SCRAM_SHA2_256_S64, PBKDF2_PRF_SCRAM_SHA2_512_S64}

\* the mutant of the resolver that refuses the SCRAM-SHA-512 identifiers
determine_prf_no_scram512(parsed) ==
    IF parsed.a \in (Sha1Ids \cup Sha256Ids \cup Sha512Ids)
                    \ {PBKDF2_PRF_SCRAM_SHA2_512, PBKDF2_PRF_SCRAM_SHA2_512_S64}
    THEN [ok |-> TRUE,
          parsed |-> [parsed EXCEPT
             !.scram = parsed.a \in ScramIds,
             !.md = IF parsed.a \in Sha1Ids THEN "sha1"
                    ELSE IF parsed.a \in Sha256Ids THEN "sha256" ELSE "sha512",
             !.dl = IF parsed.a \in Sha1Ids THEN SHA_DIGEST_LENGTH
                    ELSE IF parsed.a \in Sha256Ids THEN SHA256_DIGEST_LENGTH
                    ELSE SHA512_DIGEST_LENGTH,
             !.salt64 = parsed.a \in S64Ids]]
    ELSE [ok |-> FALSE, parsed |-> parsed]

\* atheme_pbkdf2v2_determine_prf: the two switches over parsed->a
atheme_pbkdf2v2_determine_prf(parsed) ==
    LET checked(p) ==
            IF p.md = "null" THEN [ok |-> FALSE, parsed |-> p]
            ELSE [ok |-> TRUE, parsed |-> p]
        second(p) ==
            checked(IF parsed.a \in S64Ids THEN [p EXCEPT !.salt64 = TRUE] ELSE p)
        first(p) ==
            second(IF parsed.a \in Sha1Ids
                   THEN [p EXCEPT !.md = "sha1", !.dl = SHA_DIGEST_LENGTH]
                   ELSE IF parsed.a \in Sha256Ids
                   THEN [p EXCEPT !.md = "sha256", !.dl = SHA256_DIGEST_LENGTH]
                   ELSE IF parsed.a \in Sha512Ids
                   THEN [p EXCEPT !.md = "sha512", !.dl = SHA512_DIGEST_LENGTH]
                   ELSE p)
    IN  IF parsed.a \notin (Sha1Ids \cup Sha256Ids \cup Sha512Ids)
        THEN [ok |-> FALSE, parsed |-> parsed]
        ELSE first(IF parsed.a \in ScramIds THEN [parsed EXCEPT !.scram = TRUE]
                   ELSE parsed)

\* the mutant of the range check that forgets the iteration count
parameters_sane_salt_only(parsed) ==
    ~(parsed.sl < PBKDF2_SALTLEN_MIN \/ parsed.sl > PBKDF2_SALTLEN_MAX)

\* atheme_pbkdf2v2_parameters_sane
atheme_pbkdf2v2_parameters_sane(parsed) ==
    IF parsed.sl < PBKDF2_SALTLEN_MIN \/ parsed.sl > PBKDF2_SALTLEN_MAX THEN FALSE
    ELSE IF parsed.c < PBKDF2_ITERCNT_MIN \/ parsed.c > PBKDF2_ITERCNT_MAX THEN FALSE
    ELSE TRUE

(***************************************************************************)
(* Failures of the primitives: "none", or the primitive that fails when it *)
(* is called ("pbkdf2", "hmac": every HMAC() call, "digest": EVP_Digest).  *)
(***************************************************************************)
PrimFailures == {"none", "pbkdf2", "hmac", "digest"}

\* atheme_pbkdf2v2_scram_derive(parsed, csk, chk): csk and chk may be NULL.
\* cck, csk and chk are what the function leaves in those buffers.
atheme_pbkdf2v2_scram_derive(parsed, want_csk, want_chk, prim) ==
    LET derived(csk, cck, chk) ==
            IF want_csk /\ prim = "hmac"
            THEN [ok |-> FALSE, csk |-> <<>>, chk |-> <<>>, cck |-> <<>>]
            ELSE IF want_chk /\ prim = "hmac"
            THEN [ok |-> FALSE, csk |-> csk, chk |-> <<>>, cck |-> <<>>]
            ELSE IF want_chk /\ prim = "digest"
            THEN [ok |-> FALSE, csk |-> csk, chk |-> <<>>, cck |-> cck]
            ELSE [ok |-> TRUE, csk |-> csk, chk |-> chk, cck |-> cck]
        hashed(csk, cck) ==
            derived(csk, cck,
                    IF want_chk /\ prim \notin {"hmac", "digest"}
                    THEN EVP_Digest(parsed.md, FirstBytes(cck, parsed.dl)) ELSE <<>>)
        keyed(key) ==
            hashed(IF want_csk /\ prim # "hmac"
                   THEN HMAC(parsed.md, key, ServerKeyStr) ELSE <<>>,
                   IF want_chk /\ prim # "hmac"
                   THEN HMAC(parsed.md, key, ClientKeyStr) ELSE <<>>)
    IN  keyed(FirstBytes(parsed.cdg, parsed.dl))

(***************************************************************************)
(* stringprep(3) with the SASLprep profile (GNU libidn), on the texts of   *)
(* the model: U+00AD SOFT HYPHEN (UTF-8 c2 ad) is mapped to nothing, an    *)
(* ASCII control character is prohibited, other ASCII is kept.             *)
(***************************************************************************)
RECURSIVE DropSoftHyphen(_)
DropSoftHyphen(text) ==
    IF text = <<>> THEN <<>>
    ELSE IF Len(text) >= 2 /\ text[1] = 194 /\ text[2] = 173
    THEN DropSoftHyphen(SubSeq(text, 3, Len(text)))
    ELSE <<text[1]>> \o DropSoftHyphen(Tail(text))

stringprep_saslprep(text) ==
    IF \E i \in 1..Len(text) : text[i] < 32 \/ text[i] = 127
    THEN [ok |-> FALSE, text |-> text]
    ELSE [ok |-> TRUE, text |-> DropSoftHyphen(text)]

\* atheme_pbkdf2v2_scram_normalize: result (NULL when ~ok) and the static buf
atheme_pbkdf2v2_scram_normalize(input) ==
    LET prepared(r) ==
            IF ~r.ok THEN [ok |-> FALSE, text |-> <<>>, buf |-> r.text]
            ELSE [ok |-> TRUE, text |-> r.text, buf |-> r.text]
    IN  IF Len(input) >= ATHEME_SASLPREP_MAXLEN
        THEN [ok |-> FALSE, text |-> <<>>,
              buf |-> SubSeq(input, 1, ATHEME_SASLPREP_MAXLEN - 1)]
        ELSE prepared(stringprep_saslprep(input))

(***************************************************************************)
(* atheme_pbkdf2v2_compute.  The result carries, besides the return value  *)
(* (ok) and *parsed: the step that returned false (fail), the steps taken  *)
(* in order (trace), the arguments PKCS5_PBKDF2_HMAC was called with (kdf),*)
(* the shape that matched (5, 4 or 3 conversions) and what the call left  *)
(* in the static buffer of the normalizer (buf; <<>> when it was not run). *)
(***************************************************************************)
NoKdf == [called |-> FALSE, pl |-> 0, sl |-> 0, c |-> 0]

ComputeResult(ok, fail, parsed, trace, kdf, matched, buf) ==
    [ok |-> ok, fail |-> fail, parsed |-> parsed, trace |-> trace, kdf |-> kdf,
     matched |-> matched, buf |-> buf]

\* the mutant of the tail that tests the password length after the stored
\* fields are decoded
ComputeTail_empty_check_late(password, f, p, verifying, matched, prim, trace, buf) ==
    LET pl == Len(password)
        t1 == trace \o <<"strlen_password">>
        matched_ssk_shk == matched = 5
        t2 == t1 \o (IF matched_ssk_shk THEN <<"decode_ssk", "decode_shk">>
                     ELSE IF verifying THEN <<"decode_sdg">> ELSE <<>>)
        decoded(ssk, shk, sdg) ==
            LET p1 == IF matched_ssk_shk THEN [p EXCEPT !.ssk = ssk.bytes] ELSE p
                p2 == IF matched_ssk_shk THEN [p EXCEPT !.ssk = ssk.bytes, !.shk = shk.bytes]
                      ELSE IF verifying THEN [p EXCEPT !.sdg = sdg.bytes] ELSE p
                kdf == [called |-> TRUE, pl |-> pl, sl |-> p.sl, c |-> p.c]
            IN  IF matched_ssk_shk /\ ssk.len # p.dl
                THEN ComputeResult(FALSE, "ssk", p1, t1 \o <<"decode_ssk">>, NoKdf, matched, buf)
                ELSE IF matched_ssk_shk /\ shk.len # p.dl
                THEN ComputeResult(FALSE, "shk", p2, t2, NoKdf, matched, buf)
                ELSE IF ~matched_ssk_shk /\ verifying /\ sdg.len # p.dl
                THEN ComputeResult(FALSE, "sdg", p2, t2, NoKdf, matched, buf)
                ELSE IF pl = 0 THEN ComputeResult(FALSE, "empty", p2, t2, NoKdf, matched, buf)
                ELSE IF prim = "pbkdf2"
                THEN ComputeResult(FALSE, "pbkdf2", p2, t2 \o <<"pbkdf2">>, kdf, matched, buf)
                ELSE ComputeResult(TRUE, "none",
                         [p2 EXCEPT !.cdg = PKCS5_PBKDF2_HMAC(password, FirstBytes(p.salt, p.sl),
                                                              p.c, p.md, p.dl)],
                         t2 \o <<"pbkdf2">>, kdf, matched, buf)
    IN  decoded(base64_decode(f.f4, EVP_MAX_MD_SIZE), base64_decode(f.f5, EVP_MAX_MD_SIZE),
                base64_decode(f.f4, EVP_MAX_MD_SIZE))

\* lines 389-427: the password length check, the stored fields, PBKDF2.
\* ssk, shk and sdg are what base64_decode makes of the fourth and fifth field
ComputeTail(password, f, p, verifying, matched, prim, trace, buf) ==
    LET pl == Len(password)
        t1 == trace \o <<"strlen_password">>
        matched_ssk_shk == matched = 5
        t2 == t1 \o (IF matched_ssk_shk THEN <<"decode_ssk", "decode_shk">>
                     ELSE IF verifying THEN <<"decode_sdg">> ELSE <<>>)
        decoded(ssk, shk, sdg) ==
            LET p1 == IF matched_ssk_shk THEN [p EXCEPT !.ssk = ssk.bytes] ELSE p
                p2 == IF matched_ssk_shk THEN [p EXCEPT !.ssk = ssk.bytes, !.shk = shk.bytes]
                      ELSE IF verifying THEN [p EXCEPT !.sdg = sdg.bytes] ELSE p
                kdf == [called |-> TRUE, pl |-> pl, sl |-> p.sl, c |-> p.c]
            IN  IF pl = 0 THEN ComputeResult(FALSE, "empty", p, t1, NoKdf, matched, buf)
                ELSE IF matched_ssk_shk /\ ssk.len # p.dl
                THEN ComputeResult(FALSE, "ssk", p1, t1 \o <<"decode_ssk">>, NoKdf, matched, buf)
                ELSE IF matched_ssk_shk /\ shk.len # p.dl
                THEN ComputeResult(FALSE, "shk", p2, t2, NoKdf, matched, buf)
                ELSE IF ~matched_ssk_shk /\ verifying /\ sdg.len # p.dl
                THEN ComputeResult(FALSE, "sdg", p2, t2, NoKdf, matched, buf)
                ELSE IF prim = "pbkdf2"
                THEN ComputeResult(FALSE, "pbkdf2", p2, t2 \o <<"pbkdf2">>, kdf, matched, buf)
                ELSE ComputeResult(TRUE, "none",
                         [p2 EXCEPT !.cdg = PKCS5_PBKDF2_HMAC(password, FirstBytes(p.salt, p.sl),
                                                              p.c, p.md, p.dl)],
                         t2 \o <<"pbkdf2">>, kdf, matched, buf)
    IN  decoded(base64_decode(f.f4, EVP_MAX_MD_SIZE), base64_decode(f.f5, EVP_MAX_MD_SIZE),
                base64_decode(f.f4, EVP_MAX_MD_SIZE))

\* lines 366-387: the salt is decoded or measured, then checked, then (raw) copied
ComputeSalt(password, f, p, verifying, matched, prim, trace, buf) ==
    LET measured(d) ==
            LET p1 == IF p.salt64 THEN [p EXCEPT !.sl = d.len, !.salt = d.bytes]
                      ELSE [p EXCEPT !.sl = d.len]
                first == IF p.salt64 THEN "salt_decode" ELSE "salt_strlen"
            IN  IF p.salt64 /\ d.len = SIZE_FAIL
                THEN ComputeResult(FALSE, "salt_decode", p1, trace \o <<first>>,
                                   NoKdf, matched, buf)
                ELSE IF ~atheme_pbkdf2v2_parameters_sane(p1)
                THEN ComputeResult(FALSE, "sane", p1, trace \o <<first, "sane">>,
                                   NoKdf, matched, buf)
                ELSE ComputeTail(password, f,
                                 IF p.salt64 THEN p1 ELSE [p1 EXCEPT !.salt = f.f3],
                                 verifying, matched, prim,
                                 IF p.salt64 THEN trace \o <<first, "sane">>
                                 ELSE trace \o <<first, "sane", "salt_copy">>, buf)
    IN  measured(IF p.salt64 THEN base64_decode(f.f3, SaltBufSize)
                 ELSE [len |-> Len(f.f3), bytes |-> <<>>])

\* atheme_pbkdf2v2_compute(password, parameters, parsed, verifying)
atheme_pbkdf2v2_compute(password, parameters, verifying, prim) ==
    LET t1 == <<"memset", "sscanf", "determine_prf">>
        normalized(f, matched, p, norm) ==
            IF p.scram /\ ~norm.ok
            THEN ComputeResult(FALSE, "normalize", p, t1 \o <<"normalize">>,
                               NoKdf, matched, norm.buf)
            ELSE ComputeSalt(IF p.scram THEN norm.text ELSE password, f, p, verifying,
                             matched, prim,
                             IF p.scram THEN t1 \o <<"normalize">> ELSE t1,
                             IF p.scram THEN norm.buf ELSE <<>>)
        resolved(f, matched, p0, prf) ==
            IF matched = 0
            THEN ComputeResult(FALSE, "parse", p0, <<"memset", "sscanf">>, NoKdf, 0, <<>>)
            ELSE IF ~prf.ok
            THEN ComputeResult(FALSE, "prf", prf.parsed, t1, NoKdf, matched, <<>>)
            ELSE normalized(f, matched, prf.parsed, atheme_pbkdf2v2_scram_normalize(password))
        scanned(f) ==
            resolved(f,
                     IF verifying
                     THEN IF Sscanf(f, 5) = 5 THEN 5
                          ELSE IF Sscanf(f, 4) = 4 THEN 4 ELSE 0
                     ELSE IF Sscanf(f, 3) = 3 THEN 3 ELSE 0,
                     [ZeroParsed EXCEPT !.a = f.a, !.c = f.c],
                     atheme_pbkdf2v2_determine_prf([ZeroParsed EXCEPT !.a = f.a, !.c = f.c]))
    IN  scanned(ScanFields(parameters))

(***************************************************************************)
(* The operations of crypto_pbkdf2v2_impl.  Each result carries the return *)
(* value (ok/text or ret), the compute result (comp) and what the call     *)
(* leaves in its secret buffers when it returns (left): parsed.cdg and the *)
(* csk, chk and cck temporaries.  The code never clears them.              *)
(***************************************************************************)
Leftover(cdg, csk, chk, cck) == [cdg |-> cdg, csk |-> csk, chk |-> chk, cck |-> cck]

\* atheme_pbkdf2v2_salt, with rawsalt the bytes arc4random_buf() delivered
atheme_pbkdf2v2_salt(rawsalt, digest, rounds) ==
    LET printed(out) ==
            IF Len(out) >= PASSLEN THEN [ok |-> FALSE, text |-> <<>>]
            ELSE [ok |-> TRUE, text |-> out]
        encoded(enc) ==
            IF enc.len = SIZE_FAIL THEN [ok |-> FALSE, text |-> <<>>]
            ELSE printed(FmtSaveSalt(digest, rounds, enc.text))
    IN  encoded(base64_encode(rawsalt, PBKDF2_SALTLEN_MAX * 3))

CryptResult(ok, text, comp, left) ==
    [ok |-> ok, text |-> text, comp |-> comp, left |-> left]

\* atheme_pbkdf2v2_crypt: "%s" prints parsed.salt, the salt bytes compute left
\* in the structure, up to their first NUL
atheme_pbkdf2v2_crypt(password, parameters, prim) ==
    LET scram_printed(comp, d, csk64, chk64, fs) ==
            IF ~d.ok \/ csk64.len = SIZE_FAIL \/ chk64.len = SIZE_FAIL \/ Len(fs) >= PASSLEN
            THEN CryptResult(FALSE, <<>>, comp, Leftover(comp.parsed.cdg, d.csk, d.chk, d.cck))
            ELSE CryptResult(TRUE, fs, comp, Leftover(comp.parsed.cdg, d.csk, d.chk, d.cck))
        scram_encoded(comp, parsed, d, csk64, chk64) ==
            scram_printed(comp, d, csk64, chk64,
                          FmtSaveHashScram(parsed.a, parsed.c, CString(parsed.salt),
                                           csk64.text, chk64.text))
        scram_derived(comp, parsed, d) ==
            scram_encoded(comp, parsed, d,
                          base64_encode(FirstBytes(d.csk, parsed.dl), EVP_MAX_MD_SIZE * 3),
                          base64_encode(FirstBytes(d.chk, parsed.dl), EVP_MAX_MD_SIZE * 3))
        hmac_printed(comp, cdg64, fn) ==
            IF cdg64.len = SIZE_FAIL \/ Len(fn) >= PASSLEN
            THEN CryptResult(FALSE, <<>>, comp, Leftover(comp.parsed.cdg, <<>>, <<>>, <<>>))
            ELSE CryptResult(TRUE, fn, comp, Leftover(comp.parsed.cdg, <<>>, <<>>, <<>>))
        hmac_encoded(comp, parsed, cdg64) ==
            hmac_printed(comp, cdg64,
                         FmtSaveHash(parsed.a, parsed.c, CString(parsed.salt), cdg64.text))
        computed(comp, parsed) ==
            IF ~comp.ok
            THEN CryptResult(FALSE, <<>>, comp, Leftover(parsed.cdg, <<>>, <<>>, <<>>))
            ELSE IF parsed.scram
            THEN scram_derived(comp, parsed,
                               atheme_pbkdf2v2_scram_derive(parsed, TRUE, TRUE, prim))
            ELSE hmac_encoded(comp, parsed,
                     base64_encode(FirstBytes(parsed.cdg, parsed.dl), EVP_MAX_MD_SIZE * 3))
        called(comp) == computed(comp, comp.parsed)
    IN  called(atheme_pbkdf2v2_compute(password, parameters, FALSE, prim))

\* memcmp(3) of the first n bytes of two zero-initialised buffers
Memcmp(x, y, n) == IF FirstBytes(x, n) = FirstBytes(y, n) THEN 0 ELSE 1

VerifyResult(ret, fail, comp, left) ==
    [ret |-> ret, fail |-> fail, comp |-> comp, left |-> left]

\* the mutant of verify that answers true when compute fails
verify_true_on_failure(password, parameters, prim) ==
    LET derived(comp, parsed, d) ==
            IF ~d.ok
            THEN VerifyResult(FALSE, "derive", comp, Leftover(parsed.cdg, d.csk, <<>>, <<>>))
            ELSE VerifyResult(Memcmp(parsed.ssk, d.csk, parsed.dl) = 0, "none", comp,
                              Leftover(parsed.cdg, d.csk, <<>>, <<>>))
        computed(comp, parsed) ==
            IF ~comp.ok
            THEN VerifyResult(TRUE, comp.fail, comp, Leftover(parsed.cdg, <<>>, <<>>, <<>>))
            ELSE IF parsed.scram
            THEN derived(comp, parsed,
                         atheme_pbkdf2v2_scram_derive(parsed, TRUE, FALSE, prim))
            ELSE VerifyResult(Memcmp(parsed.sdg, parsed.cdg, parsed.dl) = 0, "none", comp,
                              Leftover(parsed.cdg, <<>>, <<>>, <<>>))
        called(comp) == computed(comp, comp.parsed)
    IN  called(atheme_pbkdf2v2_compute(password, parameters, TRUE, prim))

\* the mutant of verify that compares the StoredKey (chk against parsed.shk)
verify_by_stored_key(password, parameters, prim) ==
    LET derived(comp, parsed, d) ==
            IF ~d.ok
            THEN VerifyResult(FALSE, "derive", comp, Leftover(parsed.cdg, <<>>, d.chk, d.cck))
            ELSE VerifyResult(Memcmp(parsed.shk, d.chk, parsed.dl) = 0, "none", comp,
                              Leftover(parsed.cdg, <<>>, d.chk, d.cck))
        computed(comp, parsed) ==
            IF ~comp.ok
            THEN VerifyResult(FALSE, comp.fail, comp, Leftover(parsed.cdg, <<>>, <<>>, <<>>))
            ELSE IF parsed.scram
            THEN derived(comp, parsed,
                         atheme_pbkdf2v2_scram_derive(parsed, FALSE, TRUE, prim))
            ELSE VerifyResult(Memcmp(parsed.sdg, parsed.cdg, parsed.dl) = 0, "none", comp,
                              Leftover(parsed.cdg, <<>>, <<>>, <<>>))
        called(comp) == computed(comp, comp.parsed)
    IN  called(atheme_pbkdf2v2_compute(password, parameters, TRUE, prim))

\* atheme_pbkdf2v2_verify
atheme_pbkdf2v2_verify(password, parameters, prim) ==
    LET derived(comp, parsed, d) ==
            IF ~d.ok
            THEN VerifyResult(FALSE, "derive", comp, Leftover(parsed.cdg, d.csk, <<>>, <<>>))
            ELSE VerifyResult(Memcmp(parsed.ssk, d.csk, parsed.dl) = 0, "none", comp,
                              Leftover(parsed.cdg, d.csk, <<>>, <<>>))
        computed(comp, parsed) ==
            IF ~comp.ok
            THEN VerifyResult(FALSE, comp.fail, comp, Leftover(parsed.cdg, <<>>, <<>>, <<>>))
            ELSE IF parsed.scram
            THEN derived(comp, parsed,
                         atheme_pbkdf2v2_scram_derive(parsed, TRUE, FALSE, prim))
            ELSE VerifyResult(Memcmp(parsed.sdg, parsed.cdg, parsed.dl) = 0, "none", comp,
                              Leftover(parsed.cdg, <<>>, <<>>, <<>>))
        called(comp) == computed(comp, comp.parsed)
    IN  called(atheme_pbkdf2v2_compute(password, parameters, TRUE, prim))

\* the mutant of recrypt that advises a recrypt when the record does not parse
recrypt_true_on_parse_failure(parameters, digest, rounds) ==
    LET scanned(f) ==
            IF Sscanf(f, 3) # 3 THEN TRUE
            ELSE IF f.a # digest THEN TRUE
            ELSE IF f.c # rounds THEN TRUE
            ELSE IF Len(f.f3) # PBKDF2_SALTLEN_DEF THEN TRUE
            ELSE FALSE
    IN  scanned(ScanFields(parameters))

\* atheme_pbkdf2v2_recrypt, reading pbkdf2v2_digest and pbkdf2v2_rounds
atheme_pbkdf2v2_recrypt(parameters, digest, rounds) ==
    LET scanned(f) ==
            IF Sscanf(f, 3) # 3 THEN FALSE
            ELSE IF f.a # digest THEN TRUE
            ELSE IF f.c # rounds THEN TRUE
            ELSE IF Len(f.f3) # PBKDF2_SALTLEN_DEF THEN TRUE
            ELSE FALSE
    IN  scanned(ScanFields(parameters))

\* lines 226-276 of atheme_pbkdf2v2_scram_dbextract: the PRF id is rewritten,
\* then the keys are decoded (SCRAM id) or derived from the stored digest.
\* ssk64 holds the fourth field of either shape (the first sscanf stored
\* it); shk64 is set by the 5-field match only and sdg64 by the 4-field match
\* only: the other one is uninitialised stack, whatever text `stack` is.
DbExtractTail(f, p, matched, prim, stack) ==
    LET norm_a == IF p.a \in Sha1Ids THEN PBKDF2_PRF_SCRAM_SHA1
                  ELSE PBKDF2_PRF_SCRAM_SHA2_256
        p1 == [p EXCEPT !.a = norm_a]
        shk64 == IF matched = 5 THEN f.f5 ELSE stack
        sdg64 == IF matched = 4 THEN f.f4 ELSE stack
        derived(sdg, d) ==
            IF ~d.ok
            THEN [ok |-> FALSE, fail |-> "derive",
                  parsed |-> [p1 EXCEPT !.cdg = sdg.bytes, !.ssk = d.csk, !.shk = d.chk]]
            ELSE [ok |-> TRUE, fail |-> "none",
                  parsed |-> [p1 EXCEPT !.cdg = sdg.bytes, !.ssk = d.csk, !.shk = d.chk]]
        from_digest(sdg) ==
            IF sdg.len # p.dl
            THEN [ok |-> FALSE, fail |-> "sdg", parsed |-> p1]
            ELSE derived(sdg, atheme_pbkdf2v2_scram_derive([p1 EXCEPT !.cdg = sdg.bytes],
                                                           TRUE, TRUE, prim))
        from_keys(ssk, shk) ==
            IF ssk.len # p.dl
            THEN [ok |-> FALSE, fail |-> "ssk", parsed |-> p1]
            ELSE IF shk.len # p.dl
            THEN [ok |-> FALSE, fail |-> "shk", parsed |-> [p1 EXCEPT !.ssk = ssk.bytes]]
            ELSE [ok |-> TRUE, fail |-> "none",
                  parsed |-> [p1 EXCEPT !.ssk = ssk.bytes, !.shk = shk.bytes]]
    IN  IF p.a \notin (Sha1Ids \cup Sha256Ids)
        THEN [ok |-> FALSE, fail |-> "unsupported", parsed |-> p]
        ELSE IF p.scram
        THEN from_keys(base64_decode(f.f4, EVP_MAX_MD_SIZE),
                       base64_decode(shk64, EVP_MAX_MD_SIZE))
        ELSE from_digest(base64_decode(sdg64, EVP_MAX_MD_SIZE))

\* atheme_pbkdf2v2_scram_dbextract(parameters, parsed)
atheme_pbkdf2v2_scram_dbextract(parameters, prim, stack) ==
    LET measured(f, matched, p, d64) ==
            LET pb == [p EXCEPT !.sl = d64.len, !.salt = d64.bytes]
                pr == [p EXCEPT !.sl = Len(f.f3)]
            IN  IF p.salt64 /\ d64.len = SIZE_FAIL
                THEN [ok |-> FALSE, fail |-> "salt_decode", parsed |-> pb]
                ELSE IF p.salt64 /\ ~atheme_pbkdf2v2_parameters_sane(pb)
                THEN [ok |-> FALSE, fail |-> "sane", parsed |-> pb]
                ELSE IF ~p.salt64 /\ ~atheme_pbkdf2v2_parameters_sane(pr)
                THEN [ok |-> FALSE, fail |-> "sane", parsed |-> pr]
                ELSE DbExtractTail(f, IF p.salt64 THEN pb ELSE [pr EXCEPT !.salt = f.f3],
                                   matched, prim, stack)
        resolved(f, matched, p0, prf) ==
            IF matched = 0 THEN [ok |-> FALSE, fail |-> "parse", parsed |-> p0]
            ELSE IF ~prf.ok THEN [ok |-> FALSE, fail |-> "prf", parsed |-> prf.parsed]
            ELSE measured(f, matched, prf.parsed,
                          IF prf.parsed.salt64 THEN base64_decode(f.f3, SaltBufSize)
                          ELSE [len |-> SIZE_FAIL, bytes |-> <<>>])
        scanned(f) ==
            resolved(f,
                     IF Sscanf(f, 5) = 5 THEN 5 ELSE IF Sscanf(f, 4) = 4 THEN 4 ELSE 0,
                     [ZeroParsed EXCEPT !.a = f.a, !.c = f.c],
                     atheme_pbkdf2v2_determine_prf([ZeroParsed EXCEPT !.a = f.a, !.c = f.c]))
    IN  scanned(ScanFields(parameters))

\* c_ci_pbkdf2v2_digest: the new pbkdf2v2_digest for ce->vardata ("" is a NULL
\* vardata; strcasecmp(3) makes the two spellings of a name equal)
c_ci_pbkdf2v2_digest(vardata, old) ==
    IF vardata = "" THEN old
    ELSE IF vardata \in {"SHA1", "sha1"} THEN PBKDF2_PRF_HMAC_SHA1_S64
    ELSE IF vardata \in {"SHA256", "sha256"} THEN PBKDF2_PRF_HMAC_SHA2_256_S64
    ELSE IF vardata \in {"SHA512", "sha512"} THEN PBKDF2_PRF_HMAC_SHA2_512_S64
    ELSE IF vardata \in {"SCRAM-SHA1", "scram-sha1"} THEN PBKDF2_PRF_SCRAM_SHA1_S64
    ELSE IF vardata \in {"SCRAM-SHA256", "scram-sha256"} THEN PBKDF2_PRF_SCRAM_SHA2_256_S64
    ELSE PBKDF2_DIGEST_DEF

\* the ROUNDS item: add_uint_conf_item(..., &pbkdf2v2_rounds, MIN, MAX, DEF)
c_ci_pbkdf2v2_rounds(v) ==
    IF v < PBKDF2_ITERCNT_MIN \/ v > PBKDF2_ITERCNT_MAX THEN PBKDF2_ITERCNT_DEF ELSE v

(***************************************************************************)
(* Inputs: passwords, arc4random_buf() outcomes, records of the account    *)
(* database (written by this or an earlier version, or damaged).           *)
(***************************************************************************)
PwGood == <<112, 119>>
PwOther == <<112, 120>>
\* holds U+0007, which SASLprep prohibits
PwCtl == <<112, 7>>
\* U+00AD alone: not empty, and empty once SASLprep has mapped it to nothing
PwShy == <<194, 173>>
Passwords == {<<>>, PwGood, PwOther, PwCtl, PwShy}

\* PBKDF2_SALTLEN_DEF random bytes: only base64 characters (0), none (1),
\* a NUL among them (2), a '$' among them (3), mixed (4 and up)
RandomSalt(i) ==
    SubSeq([k \in 1..PBKDF2_SALTLEN_DEF |->
        IF i = 0 THEN 65
        ELSE IF i = 1 THEN 200 + k
        ELSE IF i = 2 THEN (IF k = 5 THEN 0 ELSE 97 + (k % 26))
        ELSE IF i = 3 THEN (IF k = 9 THEN 36 ELSE 97 + (k % 26))
        ELSE (i * 37 + k * 11) % 256], 1, PBKDF2_SALTLEN_DEF)

\* "abcdef0123456789"
Salt16 == <<97, 98, 99, 100, 101, 102, 48, 49, 50, 51, 52, 53, 54, 55, 56, 57>>
\* 32 and 24 salt bytes
Salt32 == SubSeq([k \in 1..PBKDF2_SALTLEN_DEF |-> 97 + (k % 26)], 1, PBKDF2_SALTLEN_DEF)
Salt24 == SubSeq([k \in 1..24 |-> 65 + (k % 26)], 1, 24)

\* the key a record of PRF a stores for (pw, salt, c): PBKDF2 over the password,
\* normalized when the PRF is a SCRAM one
RecordKey(a, c, salt, pw) ==
    LET keyed(p) ==
            PKCS5_PBKDF2_HMAC(IF p.scram THEN atheme_pbkdf2v2_scram_normalize(pw).text ELSE pw,
                              salt, c, p.md, p.dl)
    IN  keyed(atheme_pbkdf2v2_determine_prf([ZeroParsed EXCEPT !.a = a]).parsed)

SaltField(a, salt) == IF a \in S64Ids THEN B64EncodeText(salt) ELSE salt

\* the record of shape HMAC that verifies pw: "$z$a$c$salt$digest"
HmacRecord(a, c, salt, pw) ==
    FmtSaveHash(a, c, SaltField(a, salt), B64EncodeText(RecordKey(a, c, salt, pw)))

\* the ServerKey and the StoredKey of RFC 5802 for a salted password (key)
ScramKeys(a, key) ==
    LET keyed(p) ==
            [ssk |-> HMAC(p.md, key, ServerKeyStr),
             shk |-> EVP_Digest(p.md, HMAC(p.md, key, ClientKeyStr)),
             dl |-> p.dl]
    IN  keyed(atheme_pbkdf2v2_determine_prf([ZeroParsed EXCEPT !.a = a]).parsed)

\* the record of shape SCRAM that verifies pw: "$z$a$c$salt$ServerKey$StoredKey"
ScramRecord(a, c, salt, pw) ==
    LET printed(k) ==
            FmtSaveHashScram(a, c, SaltField(a, salt),
                             B64EncodeText(k.ssk), B64EncodeText(k.shk))
    IN  printed(ScramKeys(a, RecordKey(a, c, salt, pw)))

\* a SCRAM record whose ServerKey (which = "ssk") or StoredKey ("shk") field is
\* replaced by dl other bytes
TamperedScramRecord(a, c, salt, pw, which) ==
    LET other(k) == SubSeq([i \in 1..k.dl |-> 255 - k.ssk[i]], 1, k.dl)
        printed(k) ==
            FmtSaveHashScram(a, c, SaltField(a, salt),
                B64EncodeText(IF which = "ssk" THEN other(k) ELSE k.ssk),
                B64EncodeText(IF which = "shk" THEN other(k) ELSE k.shk))
    IN  printed(ScramKeys(a, RecordKey(a, c, salt, pw)))

\* (PRF id, iteration count, salt, password) of the well-formed records
HmacRecordInputs ==
    { <<PBKDF2_PRF_HMAC_SHA2_256, PBKDF2_ITERCNT_MIN, Salt16, PwGood>>,
      <<PBKDF2_PRF_HMAC_SHA1_S64, PBKDF2_ITERCNT_MIN, Salt16, PwGood>>,
      <<PBKDF2_PRF_HMAC_SHA2_512_S64, PBKDF2_ITERCNT_DEF, Salt32, PwGood>>,
      <<PBKDF2_PRF_HMAC_SHA2_512_S64, PBKDF2_ITERCNT_DEF, Salt24, PwGood>>,
      <<PBKDF2_PRF_HMAC_SHA2_512, PBKDF2_ITERCNT_DEF, Salt32, PwCtl>> }

ScramRecordInputs ==
    { <<PBKDF2_PRF_SCRAM_SHA1, PBKDF2_ITERCNT_MIN, Salt16, PwGood>>,
      <<PBKDF2_PRF_SCRAM_SHA2_256_S64, PBKDF2_ITERCNT_DEF, Salt32, PwGood>>,
      <<PBKDF2_PRF_SCRAM_SHA2_512, PBKDF2_ITERCNT_MIN, Salt16, PwGood>>,
      <<PBKDF2_PRF_SCRAM_SHA2_512_S64, PBKDF2_ITERCNT_MIN, Salt16, PwGood>> }

WellFormedRecords ==
    { HmacRecord(x[1], x[2], x[3], x[4]) : x \in HmacRecordInputs }
    \cup { ScramRecord(x[1], x[2], x[3], x[4]) : x \in ScramRecordInputs }

DamagedRecords ==
    LET damaged(good, key256, key1) ==
        { \* no shape matches
          <<104, 101, 108, 108, 111>>,
          FmtSaveSalt(PBKDF2_PRF_HMAC_SHA2_256, PBKDF2_ITERCNT_MIN, Salt16),
          \* unknown PRF id
          FmtSaveHash(7, PBKDF2_ITERCNT_MIN, Salt16, key256),
          \* salt out of bounds, salt that is not base64
          FmtSaveHash(PBKDF2_PRF_HMAC_SHA2_256, PBKDF2_ITERCNT_MIN,
                      SubSeq(Salt16, 1, 4), key256),
          FmtSaveHash(PBKDF2_PRF_HMAC_SHA2_256_S64, PBKDF2_ITERCNT_MIN,
                      SubSeq(Salt16, 1, 15), key256),
          \* iteration count out of bounds
          FmtSaveHash(PBKDF2_PRF_HMAC_SHA2_256, PBKDF2_ITERCNT_MIN - 1, Salt16, key256),
          FmtSaveHash(PBKDF2_PRF_HMAC_SHA2_256, PBKDF2_ITERCNT_MAX + 1, Salt16, key256),
          \* digest field truncated, digest of another length
          SubSeq(good, 1, Len(good) - 1),
          FmtSaveHash(PBKDF2_PRF_HMAC_SHA2_256, PBKDF2_ITERCNT_MIN, Salt16, key1),
          \* a key field truncated
          FmtSaveHashScram(PBKDF2_PRF_SCRAM_SHA1, PBKDF2_ITERCNT_MIN, Salt16, key1,
                           SubSeq(key1, 1, 8)),
          \* the shape and the PRF id disagree
          FmtSaveHashScram(PBKDF2_PRF_HMAC_SHA2_256, PBKDF2_ITERCNT_MIN, Salt16,
                           key256, key256),
          FmtSaveHash(PBKDF2_PRF_SCRAM_SHA1, PBKDF2_ITERCNT_MIN, Salt16, key1) }
    IN  damaged(HmacRecord(PBKDF2_PRF_HMAC_SHA2_256, PBKDF2_ITERCNT_MIN, Salt16, PwGood),
                B64EncodeText(RecordKey(PBKDF2_PRF_HMAC_SHA2_256, PBKDF2_ITERCNT_MIN,
                                        Salt16, PwGood)),
                B64EncodeText(RecordKey(PBKDF2_PRF_SCRAM_SHA1, PBKDF2_ITERCNT_MIN,
                                        Salt16, PwGood)))
        \* a key field replaced
        \cup { TamperedScramRecord(PBKDF2_PRF_SCRAM_SHA1, PBKDF2_ITERCNT_MIN, Salt16,
                                   PwGood, which) : which \in {"ssk", "shk"} }

LoadRecords == WellFormedRecords \cup DamagedRecords

\* salt records handed to crypt by a caller other than the salt generator
SaltRecords ==
    { FmtSaveSalt(PBKDF2_PRF_HMAC_SHA2_256, PBKDF2_ITERCNT_MIN, Salt16),
      FmtSaveSalt(PBKDF2_PRF_SCRAM_SHA1, PBKDF2_ITERCNT_MIN, Salt16),
      FmtSaveSalt(PBKDF2_PRF_SCRAM_SHA2_512, PBKDF2_ITERCNT_MIN, Salt16),
      FmtSaveSalt(PBKDF2_PRF_SCRAM_SHA2_512_S64, PBKDF2_ITERCNT_MIN,
                  B64EncodeText(Salt16)),
      FmtSaveSalt(PBKDF2_PRF_HMAC_SHA2_256, PBKDF2_ITERCNT_MIN - 1, Salt16) }

\* ce->vardata values of the DIGEST item ("" is a NULL vardata)
DigestNames ==
    {"", "SHA1", "sha256", "SHA512", "SCRAM-SHA1", "scram-sha256", "SCRAM-SHA512", "MD5"}

\* values of the ROUNDS item
RoundsValues == {PBKDF2_ITERCNT_MIN, PBKDF2_ITERCNT_DEF, PBKDF2_ITERCNT_MIN - 1}

\* the values pbkdf2v2_digest and pbkdf2v2_rounds can take
DigestDefaults == {c_ci_pbkdf2v2_digest(n, PBKDF2_DIGEST_DEF) : n \in DigestNames}
RoundsDefaults == {PBKDF2_ITERCNT_DEF} \cup {c_ci_pbkdf2v2_rounds(v) : v \in RoundsValues}

\* what the uninitialised sdg64 / shk64 stack buffer of dbextract may hold
StackTexts == {<<>>, B64EncodeText(Salt32)}

\* (password, failing primitive) of a call; a primitive fails for PwGood only
FailingRuns == {<<PwGood, "pbkdf2">>, <<PwGood, "hmac">>, <<PwGood, "digest">>}
Runs == {<<pw, "none">> : pw \in Passwords} \cup FailingRuns

\* (failing primitive, stack text) of a dbextract call
ExtractRuns == {<<"none", st>> : st \in StackTexts} \cup {<<"hmac", <<>>>>, <<"digest", <<>>>>}

\* crypt_string(): the record crypt makes of the password and a fresh salt()
Encode(password, rawsalt, digest, rounds, prim) ==
    LET salted(parameters) ==
            IF ~parameters.ok
            THEN CryptResult(FALSE, <<>>,
                             ComputeResult(FALSE, "salt", ZeroParsed, <<>>, NoKdf, 0, <<>>),
                             Leftover(<<>>, <<>>, <<>>, <<>>))
            ELSE atheme_pbkdf2v2_crypt(password, parameters.text, prim)
    IN  salted(atheme_pbkdf2v2_salt(rawsalt, digest, rounds))

\* the results of the calls the actions make, computed once
EncodeTable ==
    [d \in DigestDefaults, r \in RoundsDefaults, run \in Runs, i \in 0..MaxRand |->
              Encode(run[1], RandomSalt(i), d, r, run[2])]

SaltTable ==
    [d \in DigestDefaults, r \in RoundsDefaults, i \in 0..MaxRand |->
              atheme_pbkdf2v2_salt(RandomSalt(i), d, r)]

CryptTable ==
    [parameters \in SaltRecords, run \in Runs |->
              atheme_pbkdf2v2_crypt(run[1], parameters, run[2])]

\* every record an operation can be handed
MadeRecords(table) == {table[x].text : x \in {y \in DOMAIN table : table[y].ok}}

AllRecords ==
    LoadRecords \cup MadeRecords(EncodeTable) \cup MadeRecords(CryptTable)
    \cup MadeRecords(SaltTable)

VerifyTable ==
    [parameters \in AllRecords, run \in Runs |->
        atheme_pbkdf2v2_verify(run[1], parameters, run[2])]

DbExtractTable ==
    [parameters \in AllRecords, run \in ExtractRuns |->
              atheme_pbkdf2v2_scram_dbextract(parameters, run[1], run[2])]

(***************************************************************************)
(* The state: the two configuration variables of the module, the record    *)
(* under consideration (rec) with how it came about (origin), and the last *)
(* operation of crypto_pbkdf2v2_impl with its arguments and its result.    *)
(***************************************************************************)
VARIABLES pbkdf2v2_digest, pbkdf2v2_rounds, rec, origin, op, arg, res

vars == <<pbkdf2v2_digest, pbkdf2v2_rounds, rec, origin, op, arg, res>>

NoOrigin == [kind |-> "none"]

Init ==
    /\ pbkdf2v2_digest = PBKDF2_DIGEST_DEF
    /\ pbkdf2v2_rounds = PBKDF2_ITERCNT_DEF
    /\ rec = <<>>
    /\ origin = NoOrigin
    /\ op = "modinit"
    /\ arg = <<>>
    /\ res = <<>>

\* the DIGEST item of the PBKDF2V2 block is read
ConfDigest(vardata) ==
    /\ pbkdf2v2_digest' = c_ci_pbkdf2v2_digest(vardata, pbkdf2v2_digest)
    /\ UNCHANGED <<pbkdf2v2_rounds, rec, origin, op, arg, res>>

\* the ROUNDS item of the PBKDF2V2 block is read
ConfRounds(v) ==
    /\ pbkdf2v2_rounds' = c_ci_pbkdf2v2_rounds(v)
    /\ UNCHANGED <<pbkdf2v2_digest, rec, origin, op, arg, res>>

\* a record of the account database is taken up
Load(r) ==
    /\ rec' = r
    /\ origin' = [kind |-> "load"]
    /\ op' = "load"
    /\ arg' = <<>>
    /\ res' = <<>>
    /\ UNCHANGED <<pbkdf2v2_digest, pbkdf2v2_rounds>>

\* salt() with the i-th outcome of arc4random_buf(); its result is taken up
DoSalt(i) ==
    \E r \in {SaltTable[pbkdf2v2_digest, pbkdf2v2_rounds, i]} :
        /\ op' = "salt"
        /\ arg' = [digest |-> pbkdf2v2_digest, rounds |-> pbkdf2v2_rounds]
        /\ res' = r
        /\ rec' = r.text
        /\ origin' = IF r.ok
                     THEN [kind |-> "salt", a |-> pbkdf2v2_digest, c |-> pbkdf2v2_rounds]
                     ELSE NoOrigin
        /\ UNCHANGED <<pbkdf2v2_digest, pbkdf2v2_rounds>>

\* crypt(password, salt()) with the i-th outcome of arc4random_buf()
DoEncode(run, i) ==
    \E r \in {EncodeTable[pbkdf2v2_digest, pbkdf2v2_rounds, run, i]} :
        /\ op' = "encode"
        /\ arg' = [password |-> run[1], prim |-> run[2],
                   digest |-> pbkdf2v2_digest, rounds |-> pbkdf2v2_rounds]
        /\ res' = r
        /\ rec' = r.text
        /\ origin' = IF r.ok
                     THEN [kind |-> "encode", password |-> run[1], salt |-> RandomSalt(i),
                           a |-> pbkdf2v2_digest, c |-> pbkdf2v2_rounds]
                     ELSE NoOrigin
        /\ UNCHANGED <<pbkdf2v2_digest, pbkdf2v2_rounds>>

\* crypt(password, parameters) with a salt record of the caller
DoCrypt(run, parameters) ==
    \E r \in {CryptTable[parameters, run]} :
        /\ op' = "crypt"
        /\ arg' = [password |-> run[1], prim |-> run[2], parameters |-> parameters]
        /\ res' = r
        /\ rec' = r.text
        /\ origin' = IF r.ok
                     THEN [kind |-> "crypt", password |-> run[1], parameters |-> parameters]
                     ELSE NoOrigin
        /\ UNCHANGED <<pbkdf2v2_digest, pbkdf2v2_rounds>>

\* verify(password, rec)
DoVerify(run) ==
    /\ origin.kind # "none"
    /\ op' = "verify"
    /\ arg' = [password |-> run[1], prim |-> run[2]]
    /\ res' = VerifyTable[rec, run]
    /\ UNCHANGED <<pbkdf2v2_digest, pbkdf2v2_rounds, rec, origin>>

\* recrypt(rec)
DoRecrypt ==
    /\ origin.kind # "none"
    /\ op' = "recrypt"
    /\ arg' = [digest |-> pbkdf2v2_digest, rounds |-> pbkdf2v2_rounds]
    /\ res' = [ret |-> atheme_pbkdf2v2_recrypt(rec, pbkdf2v2_digest, pbkdf2v2_rounds)]
    /\ UNCHANGED <<pbkdf2v2_digest, pbkdf2v2_rounds, rec, origin>>

\* the dbextract hook is called with rec
DoDbExtract(run) ==
    /\ origin.kind # "none"
    /\ op' = "dbextract"
    /\ arg' = [prim |-> run[1], stack |-> run[2]]
    /\ res' = DbExtractTable[rec, run]
    /\ UNCHANGED <<pbkdf2v2_digest, pbkdf2v2_rounds, rec, origin>>

Next ==
    \/ \E vardata \in DigestNames : ConfDigest(vardata)
    \/ \E v \in RoundsValues : ConfRounds(v)
    \/ \E r \in LoadRecords : Load(r)
    \/ \E i \in 0..MaxRand : DoSalt(i)
    \/ \E run \in Runs, i \in 0..MaxRand : DoEncode(run, i)
    \/ \E run \in Runs, parameters \in SaltRecords : DoCrypt(run, parameters)
    \/ \E run \in Runs : DoVerify(run)
    \/ DoRecrypt
    \/ \E run \in ExtractRuns : DoDbExtract(run)

Spec == Init /\ [][Next]_vars

(***************************************************************************)
(* Properties.  Computes: the last operation ran the credential computer;  *)
(* Succeeded: what that operation returned; Handed: the record it parsed.  *)
(***************************************************************************)
Computes == op \in {"encode", "crypt", "verify"}

Succeeded == IF op = "verify" THEN res.ret ELSE res.ok

AllZero(bytes) == \A i \in 1..Len(bytes) : bytes[i] = 0

\* every y of the trace has an x before it
Before(trace, x, y) ==
    \A j \in 1..Len(trace) : trace[j] = y => \E i \in 1..(j - 1) : trace[i] = x

InRange(v, lo, hi) == v >= lo /\ v <= hi

\* the salt length a record's salt field stands for: decoded bytes when the
\* PRF id is a base64-salt one (SIZE_FAIL when it does not decode), else its text
SaltByteLength(f) ==
    IF f.a \in S64Ids THEN base64_decode(f.f3, SaltBufSize).len ELSE Len(f.f3)

\* C1: Encode of a valid password succeeds, Verify of that password on the
\* record Encode made returns true, and the salt bytes Verify decodes from the
\* record are the salt bytes Encode fed to PBKDF2.
RoundTrip ==
    /\ (op = "encode" /\ arg.prim = "none" /\ arg.password = PwGood) => res.ok
    /\ (op = "verify" /\ origin.kind = "encode" /\ arg.prim = "none"
            /\ arg.password = origin.password)
          => /\ res.ret
             /\ FirstBytes(res.comp.parsed.salt, res.comp.parsed.sl) = origin.salt

\* C2: Verify returns false whenever parsing or computing fails: no record
\* shape matches, the PRF id is unknown, the salt does not decode or is out of
\* bounds, the iteration count is out of bounds, a digest or key field does not
\* decode to digest_len bytes, normalization rejects the password, or a
\* primitive fails; the result is a boolean like that of a wrong password.
VerifyFailsClosed ==
    op = "verify" =>
        LET f == ScanFields(rec)
            prf == atheme_pbkdf2v2_determine_prf([ZeroParsed EXCEPT !.a = f.a])
            dl == prf.parsed.dl
        IN  /\ res.ret \in BOOLEAN
            /\ res.fail # "none" => res.ret = FALSE
            /\ f.n < 4 => res.ret = FALSE
            /\ ~prf.ok => res.ret = FALSE
            /\ ~InRange(SaltByteLength(f), PBKDF2_SALTLEN_MIN, PBKDF2_SALTLEN_MAX)
                  => res.ret = FALSE
            /\ ~InRange(f.c, PBKDF2_ITERCNT_MIN, PBKDF2_ITERCNT_MAX) => res.ret = FALSE
            /\ (prf.ok /\ f.n >= 4 /\ base64_decode(f.f4, EVP_MAX_MD_SIZE).len # dl)
                  => res.ret = FALSE
            /\ (prf.ok /\ f.n = 5 /\ base64_decode(f.f5, EVP_MAX_MD_SIZE).len # dl)
                  => res.ret = FALSE
            /\ (prf.parsed.scram /\ ~atheme_pbkdf2v2_scram_normalize(arg.password).ok)
                  => res.ret = FALSE
            /\ arg.prim = "pbkdf2" => res.ret = FALSE
            /\ (arg.prim = "hmac" /\ prf.parsed.scram) => res.ret = FALSE

\* Verify of the right password failed on a record whose digest field is damaged
VerifyFailedOnDamagedRecord ==
    /\ op = "verify"
    /\ rec \in DamagedRecords
    /\ arg.password = PwGood
    /\ res.fail = "sdg"
    /\ res.ret = FALSE

\* C3: AdviseRecrypt of a record whose three fields parse returns false exactly
\* when its PRF id and iteration count equal the current defaults and the
\* length of its decoded salt bytes equals the default salt length.
RecryptExactlyWhenStale ==
    (op = "recrypt" /\ ScanFields(rec).n >= 3) =>
        LET f == ScanFields(rec)
        IN  res.ret = ~(/\ f.a = arg.digest
                        /\ f.c = arg.rounds
                        /\ SaltByteLength(f) = PBKDF2_SALTLEN_DEF)

\* C4 (as the code has it): AdviseRecrypt returns false, no recrypt advised,
\* whenever the three-field parse of the record fails.
RecryptKeepsUnparsedRecord ==
    (op = "recrypt" /\ ScanFields(rec).n < 3) => res.ret = FALSE

\* AdviseRecrypt was asked about the record "hello" and answered false
RecryptAnsweredUnparsedRecord ==
    /\ op = "recrypt"
    /\ rec = <<104, 101, 108, 108, 111>>
    /\ res.ret = FALSE

\* C4 (as the specification has it): AdviseRecrypt returns true whenever the
\* three-field parse of the record fails.
RecryptFailsOpen ==
    (op = "recrypt" /\ ScanFields(rec).n < 3) => res.ret = TRUE

\* C5 (as the code has it): when the computation succeeded, Verify of a record
\* with a SCRAM PRF id answers whether the first digest_len bytes of the
\* ServerKey buffer of the parsed record equal HMAC(computed digest, "Server
\* Key"); Verify of a record with an HMAC PRF id answers whether the first
\* digest_len bytes of the stored digest buffer equal the computed digest.
VerifyComparesServerKey ==
    (op = "verify" /\ res.comp.ok /\ arg.prim = "none") =>
        LET p == res.comp.parsed
            cdg == FirstBytes(p.cdg, p.dl)
        IN  IF p.scram
            THEN res.ret = (FirstBytes(p.ssk, p.dl)
                              = FirstBytes(HMAC(p.md, cdg, ServerKeyStr), p.dl))
            ELSE res.ret = (FirstBytes(p.sdg, p.dl) = cdg)

\* Verify accepted the right password on a SCRAM record whose StoredKey field
\* was replaced
VerifyAcceptedTamperedStoredKey ==
    /\ op = "verify"
    /\ rec = TamperedScramRecord(PBKDF2_PRF_SCRAM_SHA1, PBKDF2_ITERCNT_MIN, Salt16,
                                 PwGood, "shk")
    /\ arg.password = PwGood
    /\ arg.prim = "none"
    /\ res.ret = TRUE

\* C5 (as the specification has it): Verify of a SCRAM record answers whether
\* the StoredKey field equals Digest(HMAC(computed digest, "Client Key")).
VerifyComparesStoredKey ==
    (op = "verify" /\ res.comp.ok /\ arg.prim = "none") =>
        LET p == res.comp.parsed
            cdg == FirstBytes(p.cdg, p.dl)
            cck == HMAC(p.md, cdg, ClientKeyStr)
        IN  IF p.scram
            THEN res.ret = (FirstBytes(p.shk, p.dl)
                              = FirstBytes(EVP_Digest(p.md, FirstBytes(cck, p.dl)), p.dl))
            ELSE res.ret = (FirstBytes(p.sdg, p.dl) = cdg)

\* PRF identifiers the resolver is tried on: 0..MaxPrfId
MaxPrfId == 70

ListedIds == Sha1Ids \cup Sha256Ids \cup Sha512Ids

\* the resolver's answer on every identifier: the listed ones, SCRAM-SHA-512
\* among them, resolve to their digest, length, SCRAM and base64-salt flags;
\* every other identifier fails
ResolverAsListed ==
    \A a \in 0..MaxPrfId :
        LET r == atheme_pbkdf2v2_determine_prf([ZeroParsed EXCEPT !.a = a])
        IN  IF a \in ListedIds
            THEN /\ r.ok
                 /\ r.parsed.md = (IF a \in {4, 24, 44, 64} THEN "sha1"
                                   ELSE IF a \in {5, 25, 45, 65} THEN "sha256" ELSE "sha512")
                 /\ r.parsed.dl = MdLength(r.parsed.md)
                 /\ r.parsed.scram = (a >= 44)
                 /\ r.parsed.salt64 = (a \in {24, 25, 26, 64, 65, 66})
            ELSE ~r.ok

\* C6 (as the code has it): the resolver accepts both SCRAM-SHA-512
\* identifiers as SCRAM, SHA-512, 64 bytes; crypt and Verify of a record with
\* such an identifier do not fail in the resolver; every other listed
\* identifier resolves to its fixed answer and every unlisted one fails.
ResolverAcceptsScramSha512 ==
    /\ ResolverAsListed
    /\ (op \in {"crypt", "verify"} /\ res.comp.matched # 0
            /\ res.comp.parsed.a \in {PBKDF2_PRF_SCRAM_SHA2_512, PBKDF2_PRF_SCRAM_SHA2_512_S64})
          => /\ res.comp.fail # "prf"
             /\ res.comp.parsed.scram
             /\ res.comp.parsed.md = "sha512"
             /\ res.comp.parsed.dl = SHA512_DIGEST_LENGTH

\* Verify accepted the right password on a SCRAM-SHA-512 record
VerifyAcceptedScramSha512 ==
    /\ op = "verify"
    /\ rec = ScramRecord(PBKDF2_PRF_SCRAM_SHA2_512, PBKDF2_ITERCNT_MIN, Salt16, PwGood)
    /\ arg.password = PwGood
    /\ res.ret = TRUE

\* C6 (as the specification has it): crypt with a SCRAM-SHA-512 salt record
\* fails and Verify of a SCRAM-SHA-512 record returns false.
ResolverRejectsScramSha512 ==
    (op \in {"crypt", "verify"} /\ res.comp.matched # 0
        /\ res.comp.parsed.a \in {PBKDF2_PRF_SCRAM_SHA2_512, PBKDF2_PRF_SCRAM_SHA2_512_S64})
      => ~Succeeded

\* C7: PBKDF2 is called only with a salt length and an iteration count inside
\* their bounds and after the range check; a record outside either bound makes
\* the operation fail with PBKDF2 never called; a raw salt is copied only after
\* the range check passed.
SaneBeforePbkdf2 ==
    Computes =>
        LET c == res.comp
            f == ScanFields(IF op = "verify" THEN rec
                            ELSE IF op = "crypt" THEN arg.parameters ELSE <<>>)
        IN  /\ c.kdf.called
                  => /\ InRange(c.kdf.sl, PBKDF2_SALTLEN_MIN, PBKDF2_SALTLEN_MAX)
                     /\ InRange(c.kdf.c, PBKDF2_ITERCNT_MIN, PBKDF2_ITERCNT_MAX)
                     /\ Before(c.trace, "sane", "pbkdf2")
            /\ Before(c.trace, "sane", "salt_copy")
            /\ (\E j \in 1..Len(c.trace) : c.trace[j] = "salt_copy")
                  => InRange(c.parsed.sl, PBKDF2_SALTLEN_MIN, PBKDF2_SALTLEN_MAX)
            /\ (op # "encode"
                  /\ (\/ ~InRange(f.c, PBKDF2_ITERCNT_MIN, PBKDF2_ITERCNT_MAX)
                      \/ ~InRange(SaltByteLength(f), PBKDF2_SALTLEN_MIN, PBKDF2_SALTLEN_MAX)))
                  => ~c.kdf.called /\ ~Succeeded

\* Verify of a record with an iteration count above the maximum failed in the
\* range check, PBKDF2 not called
VerifyStoppedAtRangeCheck ==
    /\ op = "verify"
    /\ ScanFields(rec).c = PBKDF2_ITERCNT_MAX + 1
    /\ arg.password = PwGood
    /\ res.comp.fail = "sane"
    /\ ~res.comp.kdf.called
    /\ res.ret = FALSE

\* C8: dbextract on the SCRAM record Encode made of a password yields the
\* (ServerKey, StoredKey) pair dbextract derives from the HMAC record of the
\* same password, salt, iteration count and digest kind, both with the plain
\* SCRAM id of that digest kind; dbextract fails on every SHA-512 record.
MigrationEquivalence ==
    /\ (op = "dbextract" /\ origin.kind = "encode" /\ origin.a \in ScramIds
            /\ origin.password = PwGood /\ arg.prim = "none")
          => LET hid == IF origin.a \in Sha1Ids THEN PBKDF2_PRF_HMAC_SHA1_S64
                        ELSE PBKDF2_PRF_HMAC_SHA2_256_S64
                 sid == IF origin.a \in Sha1Ids THEN PBKDF2_PRF_SCRAM_SHA1
                        ELSE PBKDF2_PRF_SCRAM_SHA2_256
                 h == atheme_pbkdf2v2_scram_dbextract(
                          HmacRecord(hid, origin.c, origin.salt, origin.password),
                          "none", arg.stack)
                 dl == h.parsed.dl
             IN  /\ h.ok
                 /\ res.ok
                 /\ FirstBytes(res.parsed.ssk, dl) = FirstBytes(h.parsed.ssk, dl)
                 /\ FirstBytes(res.parsed.shk, dl) = FirstBytes(h.parsed.shk, dl)
                 /\ res.parsed.a = sid
                 /\ h.parsed.a = sid
    /\ (op = "dbextract" /\ ScanFields(rec).n >= 4 /\ ScanFields(rec).a \in Sha512Ids)
          => ~res.ok

\* C9: when Encode, crypt or Verify returns, the computed digest, the
\* ServerKey, StoredKey and ClientKey temporaries and the normalized password
\* copy hold zeroes only.
SecretsZeroedOnExit ==
    Computes =>
        /\ AllZero(res.left.cdg)
        /\ AllZero(res.left.csk)
        /\ AllZero(res.left.chk)
        /\ AllZero(res.left.cck)
        /\ AllZero(res.comp.buf)

\* C10: a password that is empty (after normalization when the PRF is a SCRAM
\* one) makes Encode, crypt and Verify fail whatever the record holds, with
\* PBKDF2 never called; the empty-password rejection comes after the resolver
\* and the normalizer ran and before any digest or key field is decoded.
EmptyPasswordRejected ==
    Computes =>
        LET c == res.comp
            norm == IF c.parsed.scram THEN atheme_pbkdf2v2_scram_normalize(arg.password)
                    ELSE [ok |-> TRUE, text |-> arg.password]
            decoded == {"decode_ssk", "decode_shk", "decode_sdg", "pbkdf2"}
        IN  /\ arg.password = <<>> => ~Succeeded /\ ~c.kdf.called
            /\ (norm.ok /\ norm.text = <<>>)
                  => /\ ~Succeeded
                     /\ ~c.kdf.called
                     /\ c.fail \in {"parse", "prf", "salt_decode", "sane", "empty"}
            /\ c.fail = "empty"
                  => /\ norm.ok /\ norm.text = <<>>
                     /\ Before(c.trace, "determine_prf", "strlen_password")
                     /\ c.parsed.scram => Before(c.trace, "normalize", "strlen_password")
                     /\ \A j \in 1..Len(c.trace) : c.trace[j] \notin decoded
                     /\ c.parsed.ssk = <<>> /\ c.parsed.shk = <<>> /\ c.parsed.sdg = <<>>

\* Verify of a password that SASLprep maps to nothing was rejected as empty on
\* a well-formed SCRAM record
VerifyRejectedEmptyNormalized ==
    /\ op = "verify"
    /\ rec \in WellFormedRecords
    /\ arg.password = PwShy
    /\ res.comp.parsed.scram
    /\ res.comp.fail = "empty"
    /\ res.ret = FALSE

\* C11: when Verify reaches its comparison, the branch it takes (ServerKey for
\* a SCRAM PRF id, digest otherwise) agrees with the shape that matched (five
\* fields, four fields), and the stored value it compares was decoded from the
\* record: it is not the buffer that memset left zeroed and nothing filled.
VerifyBranchAgreesWithShape ==
    (op = "verify" /\ res.comp.ok /\ res.fail = "none") =>
        /\ res.comp.parsed.scram <=> res.comp.matched = 5
        /\ res.comp.parsed.scram => res.comp.parsed.ssk # <<>>
        /\ ~res.comp.parsed.scram => res.comp.parsed.sdg # <<>>

\* C12: a credential Encode just made, and the salt record the salt generator
\* just made, is not stale: while pbkdf2v2_digest and pbkdf2v2_rounds are what
\* they were when it was made, AdviseRecrypt of it returns false.
FreshCredentialNotStale ==
    (op = "recrypt" /\ origin.kind \in {"encode", "salt"}
        /\ origin.a = arg.digest /\ origin.c = arg.rounds)
      => res.ret = FALSE

=============================================================================
